---------------------------- MODULE Spec2Model ----------------------------
(***************************************************************************)
(* A model of the legacy flat-file adapter of UniBridge:                   *)
(*   legacy_parser.py  PickRecord (read, extract, to_json, update)         *)
(*   app.py            get_legacy_client, update_legacy_client             *)
(*                                                                         *)
(* Text is modelled as a sequence of one-character strings, so that the    *)
(* Python string methods the code uses (strip, startswith, split, join,    *)
(* readlines) are computed as Python computes them.  An optional value     *)
(* (Python None or a value) is the empty tuple <<>> or the one-element     *)
(* tuple <<value>>.                                                        *)
(***************************************************************************)
EXTENDS Integers, Sequences, FiniteSets, TLC

(***************************************************************************)
(* Delimiters, legacy_parser.py:15-17.                                     *)
(***************************************************************************)
AM == "^"
VM == "]"
SM == "\\"
NL == "\n"

None == << >>
Some(x) == << x >>

(***************************************************************************)
(* Python string methods.                                                  *)
(***************************************************************************)
\* The characters str.strip() removes (those of them the model's texts use).
IsSpace(c) == c \in {" ", "\t", "\n"}

RECURSIVE LStrip(_)
LStrip(s) == IF s # << >> /\ IsSpace(Head(s)) THEN LStrip(Tail(s)) ELSE s

RECURSIVE RStrip(_)
RStrip(s) ==
    IF s # << >> /\ IsSpace(s[Len(s)]) THEN RStrip(SubSeq(s, 1, Len(s) - 1)) ELSE s

\* str.strip()
Strip(s) == RStrip(LStrip(s))

\* str.startswith(prefix)
StartsWith(s, prefix) ==
    /\ Len(prefix) <= Len(s)
    /\ SubSeq(s, 1, Len(prefix)) = prefix

\* The index of the first occurrence of character d in s, 0 when there is none.
RECURSIVE FindFrom(_, _, _)
FindFrom(s, d, i) ==
    IF i > Len(s) THEN 0
    ELSE IF s[i] = d THEN i
    ELSE FindFrom(s, d, i + 1)

\* str.split(d) for a one-character separator: never empty, "" gives [""].
RECURSIVE Split(_, _)
Split(s, d) ==
    LET i == FindFrom(s, d, 1)
    IN  IF i = 0 THEN << s >>
        ELSE << SubSeq(s, 1, i - 1) >> \o Split(SubSeq(s, i + 1, Len(s)), d)

\* str.split(d, 1): at most one cut, at the first separator.
SplitOnce(s, d) ==
    LET i == FindFrom(s, d, 1)
    IN  IF i = 0 THEN << s >>
        ELSE << SubSeq(s, 1, i - 1), SubSeq(s, i + 1, Len(s)) >>

\* d.join(parts) for a one-character separator.
RECURSIVE Join(_, _)
Join(d, parts) ==
    IF parts = << >> THEN << >>
    ELSE IF Len(parts) = 1 THEN parts[1]
    ELSE parts[1] \o << d >> \o Join(d, Tail(parts))

\* file.readlines(), and iteration over a text file: each line keeps its "\n";
\* a last line without one is a line too; the empty file has no lines.
RECURSIVE ReadLines(_)
ReadLines(content) ==
    LET i == FindFrom(content, NL, 1)
    IN  IF content = << >> THEN << >>
        ELSE IF i = 0 THEN << content >>
        ELSE << SubSeq(content, 1, i) >> \o ReadLines(SubSeq(content, i + 1, Len(content)))

\* The text a sequence of f.write(line) calls leaves in the file.
RECURSIVE Concat(_)
Concat(parts) == IF parts = << >> THEN << >> ELSE Head(parts) \o Concat(Tail(parts))

\* Python truthiness of an optional string: None and "" are both false.
Truthy(opt) == opt # None /\ opt[1] # << >>

\* str(n) for an integer.
Digits == << "0", "1", "2", "3", "4", "5", "6", "7", "8", "9" >>
RECURSIVE NatToStr(_)
NatToStr(n) == IF n < 10 THEN << Digits[n + 1] >> ELSE NatToStr(n \div 10) \o << Digits[(n % 10) + 1] >>
IntToStr(n) == IF n < 0 THEN << "-" >> \o NatToStr(-n) ELSE NatToStr(n)

(***************************************************************************)
(* PickRecord                                                              *)
(***************************************************************************)
\* PickRecord.__init__: attributes are split only from a truthy raw_data.
PickRecord(record_key, raw_data) ==
    [ record_key |-> record_key,
      raw_data   |-> raw_data,
      attributes |-> IF Truthy(raw_data) THEN Split(raw_data[1], AM) ELSE << >> ]

\* The line test of read and of update's rewrite loop.
LineMatches(line, key) == StartsWith(Strip(line), key \o << AM >>)

\* The scan of read over the lines of the file: the first matching line wins.
RECURSIVE ScanLines(_, _)
ScanLines(lines, key) ==
    IF lines = << >> THEN None
    ELSE LET line == Strip(Head(lines))
         IN  IF line # << >> /\ StartsWith(line, key \o << AM >>)
             THEN Some(SplitOnce(line, AM)[2])
             ELSE ScanLines(Tail(lines), key)

\* PickRecord.read on a store that is missing (FileNotFoundError caught) or present.
ReadRecord(exists, content, key) ==
    IF ~exists THEN PickRecord(Some(key), None)
    ELSE PickRecord(Some(key), ScanLines(ReadLines(content), key))

\* Python truthiness of an optional integer argument: None and 0 are both false.
TruthyInt(opt) == opt # None /\ opt[1] # 0

\* InRange without its lower bound.
InRangeNoLower(index, n) == index < n

\* The bounds test 0 <= index < len(list) of extract.
InRange(index, n) == 0 <= index /\ index < n

\* list[index] as Python evaluates it: a negative index counts from the end;
\* None stands for the IndexError of an index outside -len .. len-1.
PyGet(list, index) ==
    IF 0 <= index /\ index < Len(list) THEN Some(list[index + 1])
    ELSE IF index < 0 /\ -index <= Len(list) THEN Some(list[Len(list) + index + 1])
    ELSE None

\* The value of an optional, or the "" that extract's except clause returns.
OrEmpty(opt) == IF opt = None THEN << >> ELSE opt[1]

\* PickRecord.extract
extract(self, attribute_pos, value_pos, subvalue_pos) ==
    LET attr_index == attribute_pos - 1
    IN  IF InRange(attr_index, Len(self.attributes))
        THEN LET attr == OrEmpty(PyGet(self.attributes, attr_index))
             IN  IF attr = << >> THEN << >>
                 ELSE IF TruthyInt(value_pos)
                 THEN LET values == Split(attr, VM)
                          value_index == value_pos[1] - 1
                      IN  IF InRange(value_index, Len(values))
                          THEN LET val == OrEmpty(PyGet(values, value_index))
                               IN  IF TruthyInt(subvalue_pos)
                                   THEN LET svs == Split(val, SM)
                                            sindex == subvalue_pos[1] - 1
                                        IN  IF InRange(sindex, Len(svs))
                                            THEN OrEmpty(PyGet(svs, sindex))
                                            ELSE << >>
                                   ELSE val
                          ELSE << >>
                 ELSE attr
        ELSE << >>

(***************************************************************************)
(* Decimal(b) followed by str(), for the numerals the model's texts can    *)
(* spell: optional surrounding whitespace, an optional sign, digits with   *)
(* an optional point.  (Exponents, Infinity, NaN and "_" need characters   *)
(* that no text of the model contains.)  None stands for InvalidOperation. *)
(***************************************************************************)
IsDigit(c) == c \in {"0", "1", "2", "3", "4", "5", "6", "7", "8", "9"}

AllDigits(s) == \A i \in 1..Len(s) : IsDigit(s[i])

RECURSIVE DropZeros(_)
DropZeros(s) == IF Len(s) > 1 /\ Head(s) = "0" THEN DropZeros(Tail(s)) ELSE s

Zeros(n) == [i \in 1..n |-> "0"]

DecimalStr(b) ==
    LET t      == Strip(b)
        signed == t # << >> /\ Head(t) \in {"+", "-"}
        neg    == IF signed /\ Head(t) = "-" THEN << "-" >> ELSE << >>
        u      == IF signed THEN Tail(t) ELSE t
        parts  == SplitOnce(u, ".")
        ip     == parts[1]
        fp     == IF Len(parts) = 2 THEN parts[2] ELSE << >>
        valid  == AllDigits(ip) /\ AllDigits(fp) /\ Len(ip) + Len(fp) > 0
        coeff  == DropZeros(ip \o fp)
        exp    == -Len(fp)
        left   == exp + Len(coeff)
    IN  IF ~valid THEN None
        ELSE IF left > -6
        THEN Some(neg \o (IF left <= 0
                          THEN << "0", "." >> \o Zeros(-left) \o coeff
                          ELSE IF left >= Len(coeff) THEN coeff
                          ELSE SubSeq(coeff, 1, left) \o << "." >>
                               \o SubSeq(coeff, left + 1, Len(coeff))))
        ELSE Some(neg \o << Head(coeff) >>
                  \o (IF Len(coeff) > 1 THEN << "." >> \o Tail(coeff) ELSE << >>)
                  \o << "E" >> \o IntToStr(left - 1))

(***************************************************************************)
(* datetime.strptime(d, "%Y-%m-%d").date() followed by str().  %Y is four  *)
(* digits, %m is 1[0-2]|0[1-9]|[1-9], %d is 3[01]|[12]\d|0[1-9]|[1-9]| [1-9]; *)
(* the whole text must match and the date must exist.  None stands for     *)
(* ValueError.                                                             *)
(***************************************************************************)
DigitVal(c) == CHOOSE n \in 0..9 : Digits[n + 1] = c

RECURSIVE StrToNat(_)
StrToNat(s) ==
    IF s = << >> THEN 0 ELSE 10 * StrToNat(SubSeq(s, 1, Len(s) - 1)) + DigitVal(s[Len(s)])

IsLeap(y) == (y % 4 = 0 /\ y % 100 # 0) \/ y % 400 = 0

DaysIn(y, m) ==
    IF m = 2 THEN (IF IsLeap(y) THEN 29 ELSE 28)
    ELSE IF m \in {4, 6, 9, 11} THEN 30 ELSE 31

Pad2(n) == IF n < 10 THEN << "0" >> \o NatToStr(n) ELSE NatToStr(n)

DateStr(d) ==
    LET f     == Split(d, "-")
        ys    == f[1]
        ms    == f[2]
        ds0   == f[3]
        ds    == IF Len(ds0) = 2 /\ ds0[1] = " " THEN Tail(ds0) ELSE ds0
        shape == /\ Len(f) = 3
                 /\ Len(ys) = 4 /\ AllDigits(ys)
                 /\ Len(ms) \in {1, 2} /\ AllDigits(ms)
                 /\ Len(ds) \in {1, 2} /\ AllDigits(ds)
        y     == StrToNat(ys)
        m     == StrToNat(ms)
        dd    == StrToNat(ds)
    IN  IF ~shape THEN None
        ELSE IF y >= 1 /\ m \in 1..12 /\ dd >= 1 /\ dd <= DaysIn(y, m)
        THEN Some(ys \o << "-" >> \o Pad2(m) \o << "-" >> \o Pad2(dd))
        ELSE None

(***************************************************************************)
(* PickRecord.to_json                                                      *)
(***************************************************************************)
\* [x for x in (raw.split(VM) if raw else []) if x != '']
RECURSIVE NonEmpty(_)
NonEmpty(parts) ==
    IF parts = << >> THEN << >>
    ELSE IF Head(parts) = << >> THEN NonEmpty(Tail(parts))
    ELSE << Head(parts) >> \o NonEmpty(Tail(parts))

ValueList(raw) == NonEmpty(IF raw # << >> THEN Split(raw, VM) ELSE << >>)

\* str(Decimal(b)) if parse_numbers and the parse succeeds, else b itself.
ParsedBalance(b, parse_numbers) ==
    IF parse_numbers /\ DecimalStr(b) # None THEN DecimalStr(b)[1] ELSE b

\* str(date) if parse_dates and the parse succeeds, else d itself.
ParsedDate(d, parse_dates) ==
    IF parse_dates /\ DateStr(d) # None THEN DateStr(d)[1] ELSE d

Max(a, b) == IF a >= b THEN a ELSE b

\* The dictionary tx built for index i (0-based in the code, 1-based here):
\* a function whose domain is the keys set; a key is set only when the list
\* has an element there.
Transaction(parsed_balances, parsed_dates, i) ==
    [ key \in (IF i <= Len(parsed_balances) THEN {"amount"} ELSE {})
               \cup (IF i <= Len(parsed_dates) THEN {"date"} ELSE {})
      |-> IF key = "amount" THEN parsed_balances[i] ELSE parsed_dates[i] ]

\* t.get(key): the value, or None for a key the dictionary lacks.
DictGet(t, key) == IF key \in DOMAIN t THEN Some(t[key]) ELSE None

\* str(x) for x a text or None.
NoneText == << "N", "o", "n", "e" >>
StrOf(opt) == IF opt = None THEN NoneText ELSE opt[1]

\* One entry of the "transactions" list of the returned dictionary.
TransactionOut(t) ==
    [ amount |-> StrOf(DictGet(t, "amount")), date |-> StrOf(DictGet(t, "date")) ]

\* CurrentBalance with the two policies exchanged.
CurrentBalanceSwapped(parsed_balances, latest_balance) ==
    IF parsed_balances # << >>
    THEN IF latest_balance = "first"
         THEN Some(parsed_balances[Len(parsed_balances)])
         ELSE Some(parsed_balances[1])
    ELSE None

\* The choice of the current balance: None when there is no balance.
CurrentBalance(parsed_balances, latest_balance) ==
    IF parsed_balances # << >>
    THEN IF latest_balance = "first"
         THEN Some(parsed_balances[1])
         ELSE Some(parsed_balances[Len(parsed_balances)])
    ELSE None

\* The dictionary to_json returns; is_none marks the return value None.
NoProjection ==
    [ is_none |-> TRUE, client_id |-> None, client_name |-> << >>,
      current_balance |-> None, legacy_balances_history |-> << >>,
      transaction_dates |-> << >>, transactions |-> << >>,
      data_source |-> "" ]

to_json(self, parse_numbers, parse_dates, latest_balance) ==
    IF ~Truthy(self.raw_data) THEN NoProjection
    ELSE
    LET balances_raw    == extract(self, 2, None, None)
        dates_raw       == extract(self, 3, None, None)
        balances        == ValueList(balances_raw)
        dates           == ValueList(dates_raw)
        parsed_balances == [i \in 1..Len(balances) |-> ParsedBalance(balances[i], parse_numbers)]
        parsed_dates    == [i \in 1..Len(dates) |-> ParsedDate(dates[i], parse_dates)]
        length          == Max(Len(parsed_balances), Len(parsed_dates))
        transactions    == [i \in 1..length |-> Transaction(parsed_balances, parsed_dates, i)]
    IN  [ is_none |-> FALSE,
          client_id |-> self.record_key,
          client_name |-> extract(self, 1, None, None),
          current_balance |-> CurrentBalance(parsed_balances, latest_balance),
          legacy_balances_history |-> parsed_balances,
          transaction_dates |-> parsed_dates,
          transactions |-> [i \in 1..length |-> TransactionOut(transactions[i])],
          data_source |-> "Simulated Universe/Pick Flat File" ]

(***************************************************************************)
(* PickRecord.update, up to new_raw                                        *)
(*                                                                         *)
(* An attribute map is a sequence of entries [k, v] in the dictionary's    *)
(* insertion order, with distinct keys k.  A value v is a scalar or a      *)
(* list of scalars; a scalar is a string or an integer.                    *)
(***************************************************************************)
StrVal(s)   == [ list |-> FALSE, items |-> << [ t |-> "str", s |-> s ] >> ]
IntVal(n)   == [ list |-> FALSE, items |-> << [ t |-> "int", n |-> n ] >> ]
ListVal(ss) == [ list |-> TRUE, items |-> [i \in 1..Len(ss) |-> [ t |-> "str", s |-> ss[i] ]] ]

\* str(x) of a scalar
PyStr(x) == IF x.t = "int" THEN IntToStr(x.n) ELSE x.s

\* The text written for a value: VM.join(str(x) for x in v), or str(v).
ValueText(v) ==
    IF v.list THEN Join(VM, [i \in 1..Len(v.items) |-> PyStr(v.items[i])])
    ELSE PyStr(v.items[1])

\* max((k for k in attribute_map), default=0)
RECURSIVE MaxKey(_)
MaxKey(attribute_map) ==
    IF attribute_map = << >> THEN 0
    ELSE IF Len(attribute_map) = 1 THEN attribute_map[1].k
    ELSE Max(attribute_map[1].k, MaxKey(Tail(attribute_map)))

\* attrs.extend([''] * (max_index - len(attrs))) when max_index > len(attrs)
Extend(attrs, max_index) ==
    IF max_index > Len(attrs)
    THEN attrs \o [i \in 1..(max_index - Len(attrs)) |-> << >>]
    ELSE attrs

\* list[index] = x as Python evaluates it; None stands for IndexError.
PySet(list, index, x) ==
    IF 0 <= index /\ index < Len(list) THEN Some([list EXCEPT ![index + 1] = x])
    ELSE IF index < 0 /\ -index <= Len(list)
    THEN Some([list EXCEPT ![Len(list) + index + 1] = x])
    ELSE None

\* The loop over attribute_map.items(); None stands for IndexError.
RECURSIVE ApplyMap(_, _)
ApplyMap(attrs, attribute_map) ==
    IF attribute_map = << >> THEN Some(attrs)
    ELSE LET idx  == attribute_map[1].k - 1
             next == PySet(attrs, idx, ValueText(attribute_map[1].v))
         IN  IF next = None THEN None ELSE ApplyMap(next[1], Tail(attribute_map))

\* The attribute list update builds from the record's attributes and the map.
NewAttrs(self, attribute_map) ==
    ApplyMap(Extend(self.attributes, MaxKey(attribute_map)), attribute_map)

\* new_raw = AM.join(attrs)
NewRaw(attrs) == Join(AM, attrs)

\* updated_line = f"{record_key}{AM}{new_raw}\n"
UpdatedLine(record_key, new_raw) == record_key \o << AM >> \o new_raw \o << NL >>

\* Rewrite that puts the updated line in place of every line.
RewriteEvery(lines, record_key, new_raw) ==
    [i \in 1..Len(lines) |-> UpdatedLine(record_key, new_raw)]

\* Rewrite that writes every line back as it was read.
RewriteNothing(lines, record_key, new_raw) == lines

\* The lines the rewrite loop writes: every matching line is replaced.
Rewrite(lines, record_key, new_raw) ==
    [i \in 1..Len(lines) |->
        IF LineMatches(lines[i], record_key)
        THEN UpdatedLine(record_key, new_raw)
        ELSE lines[i]]

(***************************************************************************)
(* update_legacy_client: the keys of the JSON body                         *)
(***************************************************************************)
\* int(k) for a string k: surrounding whitespace, an optional sign, digits.
\* None stands for ValueError.
ParseInt(k) ==
    LET t      == Strip(k)
        signed == t # << >> /\ Head(t) \in {"+", "-"}
        u      == IF signed THEN Tail(t) ELSE t
    IN  IF u # << >> /\ AllDigits(u)
        THEN Some(IF signed /\ Head(t) = "-" THEN -StrToNat(u) ELSE StrToNat(u))
        ELSE None

\* attr_map[pos] = v: a dictionary keeps the place of a key it already has.
DictPut(attr_map, pos, v) ==
    IF \E i \in 1..Len(attr_map) : attr_map[i].k = pos
    THEN [i \in 1..Len(attr_map) |->
            IF attr_map[i].k = pos THEN [ k |-> pos, v |-> v ] ELSE attr_map[i]]
    ELSE Append(attr_map, [ k |-> pos, v |-> v ])

\* The validation loop over data.items(): the attribute map, or the first
\* key that is refused.
RECURSIVE ValidateKeys(_, _)
ValidateKeys(data, attr_map) ==
    IF data = << >> THEN [ ok |-> TRUE, attr_map |-> attr_map, key |-> << >> ]
    ELSE LET pos == ParseInt(data[1].k)
         IN  IF pos = None
             THEN [ ok |-> FALSE, attr_map |-> << >>, key |-> data[1].k ]
             ELSE ValidateKeys(Tail(data), DictPut(attr_map, pos[1], data[1].v))

(***************************************************************************)
(* The texts the model draws its inputs from.                              *)
(***************************************************************************)
K1 == << "1" >>
K2 == << "2" >>
K3 == << "3" >>
K9 == << "9" >>
Keys == {K1, K2, K3, K9}

\* 1^Jo^25.0]+4]x^2023-11-01]]2024-1-5   three balances, two dates
\* 2^N^A]B\S1\S2                         a value with subvalues
\* 3^                                    a key with nothing after it
\* 1^Dup^1                               a second line with key 1
StoreA ==
    << "1", "^", "J", "o", "^", "2", "5", ".", "0", "]", "+", "4", "]", "x", "^", "2", "0", "2", "3", "-", "1", "1", "-", "0", "1", "]", "]", "2", "0", "2", "4", "-", "1", "-", "5", "\n" >>
    \o << "2", "^", "N", "^", "A", "]", "B", "\\", "S", "1", "\\", "S", "2", "\n" >>
    \o << "3", "^", "\n" >>
    \o << "1", "^", "D", "u", "p", "^", "1", "\n" >>

\*  2^Zed^^2024-04-20    blanks around the line; attribute 2 is empty
\* 3^So                  one attribute; the last line has no newline
StoreB ==
    << " ", "2", "^", "Z", "e", "d", "^", "^", "2", "0", "2", "4", "-", "0", "4", "-", "2", "0", " ", "\n" >>
    \o << "3", "^", "S", "o" >>

InitStores ==
    { [ exists |-> TRUE, content |-> StoreA ],
      [ exists |-> TRUE, content |-> StoreB ],
      [ exists |-> FALSE, content |-> << >> ] }

\* Attribute maps passed to update.
MapJane   == << [ k |-> 1, v |-> StrVal(<< "J", "a", "n", "e" >>) ],
                [ k |-> 2, v |-> ListVal(<< << "9", ".", "9" >>, << "0" >> >>) ] >>
MapCaret  == << [ k |-> 1, v |-> StrVal(<< "a", "^", "b" >>) ] >>
MapExtend == << [ k |-> 5, v |-> IntVal(7) ] >>
Maps == {MapJane, MapCaret, MapExtend}

\* JSON bodies posted to update_legacy_client: entries [k, v] with text keys.
BodyJane  == << [ k |-> << "1" >>, v |-> StrVal(<< "J", "a", "n", "e" >>) ],
                [ k |-> << "2" >>, v |-> ListVal(<< << "9", ".", "9" >>, << "0" >> >>) ] >>
BodyZero  == << [ k |-> << "0" >>, v |-> StrVal(<< "Z" >>) ] >>
BodyMinus == << [ k |-> << "-", "7" >>, v |-> StrVal(<< "Z" >>) ] >>
BodyWord  == << [ k |-> << "2" >>, v |-> StrVal(<< "Z" >>) ], [ k |-> << "x" >>, v |-> StrVal(<< "Z" >>) ] >>
BodyNone  == << >>
BodyThird == << [ k |-> << "3" >>, v |-> StrVal(<< "D" >>) ] >>
Bodies == {BodyJane, BodyZero, BodyMinus, BodyWord, BodyNone, BodyThird}

(***************************************************************************)
(* Bounds                                                                  *)
(***************************************************************************)
\* Calls started, over all callers.
MaxOps == 2
\* Positions tried by extract run from -1 to MaxPos.
MaxPos == 2

Procs == {1, 2}
Positions == -1..MaxPos
OptPositions == {None} \cup {Some(n) : n \in Positions}
Policies == {"first", "last", "other"}
\* The query parameters of a GET: the defaults, or all three given.
Queries ==
    { [ parse_numbers |-> TRUE, parse_dates |-> TRUE, latest |-> "last" ],
      [ parse_numbers |-> FALSE, parse_dates |-> FALSE, latest |-> "first" ] }

(***************************************************************************)
(* State                                                                   *)
(*   store_exists, store   the backing store DATA_FILE and its text        *)
(*   bak_exists, bak       the backup DATA_FILE + '.bak'                   *)
(*   rec[p]                the PickRecord caller p holds                   *)
(*   pc[p]                 where caller p stands in update                 *)
(*   frame[p]              update's frame: self, attribute_map, new_raw,   *)
(*                         lines; whether update_legacy_client called it,  *)
(*                         and with which JSON body                        *)
(*   ret                   the latest return to a caller (see NoRet)       *)
(*   resp[p]               the latest return caller p got                  *)
(*   nops                  calls started so far                            *)
(***************************************************************************)
VARIABLES store_exists, store, bak_exists, bak, rec, pc, frame, ret, resp, nops

vars == << store_exists, store, bak_exists, bak, rec, pc, frame, ret, resp, nops >>

NoFrame ==
    [ self |-> PickRecord(None, None), attribute_map |-> << >>, new_raw |-> << >>,
      lines |-> << >>, http |-> FALSE, data |-> << >> ]

\* A return, with the fields no call has set yet:
\*   proc, op    who called what
\*   self        the record the call was made on, as it was at the call
\*   key         the key given to read, or the client_id of a request
\*   pos, flags  the arguments of extract and of to_json
\*   map, data   the argument of update, the JSON body of a POST
\*   text, json  what extract and to_json returned
\*   exc         "ok", or the exception update raised
\*   status, bad the HTTP status of an answer, the key a 400 names
NoRet ==
    [ proc |-> 0, op |-> "none", self |-> PickRecord(None, None), key |-> << >>,
      pos |-> << 0, None, None >>, flags |-> << TRUE, TRUE, "last" >>,
      map |-> << >>, data |-> << >>, text |-> << >>, json |-> NoProjection,
      exc |-> "", status |-> 0, bad |-> << >> ]

Init ==
    /\ \E f \in InitStores : store_exists = f.exists /\ store = f.content
    /\ bak_exists = FALSE
    /\ bak = << >>
    /\ rec = [p \in Procs |-> PickRecord(None, None)]
    /\ pc = [p \in Procs |-> "idle"]
    /\ frame = [p \in Procs |-> NoFrame]
    /\ ret = NoRet
    /\ resp = [p \in Procs |-> NoRet]
    /\ nops = 0

CanCall(p) == pc[p] = "idle" /\ nops < MaxOps

\* What caller p holds after a step of its own: the return, if the step
\* returned to it (p is between calls again), else what it held.
Received(p) == IF pc'[p] = "idle" THEN [resp EXCEPT ![p] = ret'] ELSE resp

\* rec = PickRecord.read(record_key)
Read(p, record_key) ==
    /\ CanCall(p)
    /\ rec' = [rec EXCEPT ![p] = ReadRecord(store_exists, store, record_key)]
    /\ ret' = [NoRet EXCEPT !.proc = p, !.op = "read", !.self = rec'[p], !.key = record_key]
    /\ nops' = nops + 1
    /\ UNCHANGED << store_exists, store, bak_exists, bak, pc, frame >>
    /\ resp' = Received(p)

\* rec.extract(attribute_pos, value_pos, subvalue_pos)
Extract(p, attribute_pos, value_pos, subvalue_pos) ==
    /\ CanCall(p)
    /\ ret' = [NoRet EXCEPT !.proc = p, !.op = "extract", !.self = rec[p],
                            !.pos = << attribute_pos, value_pos, subvalue_pos >>,
                            !.text = extract(rec[p], attribute_pos, value_pos, subvalue_pos)]
    /\ nops' = nops + 1
    /\ UNCHANGED << store_exists, store, bak_exists, bak, rec, pc, frame >>
    /\ resp' = Received(p)

\* rec.to_json(parse_numbers, parse_dates, latest_balance)
ToJson(p, parse_numbers, parse_dates, latest_balance) ==
    /\ CanCall(p)
    /\ ret' = [NoRet EXCEPT !.proc = p, !.op = "to_json", !.self = rec[p],
                            !.flags = << parse_numbers, parse_dates, latest_balance >>,
                            !.json = to_json(rec[p], parse_numbers, parse_dates, latest_balance)]
    /\ nops' = nops + 1
    /\ UNCHANGED << store_exists, store, bak_exists, bak, rec, pc, frame >>
    /\ resp' = Received(p)

\* What the caller gets when update is done or has raised: update's own
\* outcome, or the answer update_legacy_client makes of it (200, or 500).
Outcome(p, self, attribute_map, http, client_id, data, e) ==
    IF http
    THEN [NoRet EXCEPT !.proc = p, !.op = "http_update", !.self = self, !.key = client_id,
                       !.map = attribute_map, !.data = data, !.exc = e,
                       !.status = IF e = "ok" THEN 200 ELSE 500]
    ELSE [NoRet EXCEPT !.proc = p, !.op = "update", !.self = self,
                       !.map = attribute_map, !.exc = e]

\* update, from its entry to new_raw: ValueError without a record_key,
\* IndexError from the loop, else on to the backup.
EnterUpdate(p, self, attribute_map, http, client_id, data) ==
    LET attrs == NewAttrs(self, attribute_map)
    IN  IF ~Truthy(self.record_key)
        THEN /\ ret' = Outcome(p, self, attribute_map, http, client_id, data, "ValueError")
             /\ UNCHANGED << pc, frame >>
        ELSE IF attrs = None
        THEN /\ ret' = Outcome(p, self, attribute_map, http, client_id, data, "IndexError")
             /\ UNCHANGED << pc, frame >>
        ELSE /\ pc' = [pc EXCEPT ![p] = "backup"]
             /\ frame' = [frame EXCEPT ![p] =
                    [ self |-> self, attribute_map |-> attribute_map,
                      new_raw |-> NewRaw(attrs[1]), lines |-> << >>,
                      http |-> http, data |-> data ]]
             /\ UNCHANGED ret

\* rec.update(attribute_map), called directly
UpdateCall(p, attribute_map) ==
    /\ CanCall(p)
    /\ EnterUpdate(p, rec[p], attribute_map, FALSE, << >>, << >>)
    /\ nops' = nops + 1
    /\ UNCHANGED << store_exists, store, bak_exists, bak, rec >>
    /\ resp' = Received(p)

\* The return of the update (or of the handler around it) that p is in.
Return(p, e) ==
    Outcome(p, frame[p].self, frame[p].attribute_map, frame[p].http,
            OrEmpty(frame[p].self.record_key), frame[p].data, e)

\* UpdBackup that leaves an empty store behind when it finds none to copy.
UpdBackupTouch(p) ==
    /\ pc[p] = "backup"
    /\ IF store_exists
       THEN /\ bak_exists' = TRUE
            /\ bak' = store
            /\ pc' = [pc EXCEPT ![p] = "readlines"]
            /\ UNCHANGED << store_exists, store, frame, ret >>
       ELSE /\ ret' = Return(p, "FileNotFoundError")
            /\ pc' = [pc EXCEPT ![p] = "idle"]
            /\ frame' = [frame EXCEPT ![p] = NoFrame]
            /\ store_exists' = TRUE
            /\ store' = << >>
            /\ UNCHANGED << bak_exists, bak >>
    /\ UNCHANGED << rec, nops >>
    /\ resp' = Received(p)

\* UpdBackup that keeps a backup it finds instead of overwriting it.
UpdBackupKeepFirst(p) ==
    /\ pc[p] = "backup"
    /\ IF store_exists
       THEN /\ bak_exists' = TRUE
            /\ bak' = IF bak_exists THEN bak ELSE store
            /\ pc' = [pc EXCEPT ![p] = "readlines"]
            /\ UNCHANGED << frame, ret >>
       ELSE /\ ret' = Return(p, "FileNotFoundError")
            /\ pc' = [pc EXCEPT ![p] = "idle"]
            /\ frame' = [frame EXCEPT ![p] = NoFrame]
            /\ UNCHANGED << bak_exists, bak >>
    /\ UNCHANGED << store_exists, store, rec, nops >>
    /\ resp' = Received(p)

\* shutil.copy(DATA_FILE, bak_file)
UpdBackup(p) ==
    /\ pc[p] = "backup"
    /\ IF store_exists
       THEN /\ bak_exists' = TRUE
            /\ bak' = store
            /\ pc' = [pc EXCEPT ![p] = "readlines"]
            /\ UNCHANGED << frame, ret >>
       ELSE /\ ret' = Return(p, "FileNotFoundError")
            /\ pc' = [pc EXCEPT ![p] = "idle"]
            /\ frame' = [frame EXCEPT ![p] = NoFrame]
            /\ UNCHANGED << bak_exists, bak >>
    /\ UNCHANGED << store_exists, store, rec, nops >>
    /\ resp' = Received(p)

\* with open(DATA_FILE, 'r') as f: lines = f.readlines()
\* (nothing removes the store, so after the backup it is there to open)
UpdReadLines(p) ==
    /\ pc[p] = "readlines"
    /\ store_exists
    /\ frame' = [frame EXCEPT ![p].lines = ReadLines(store)]
    /\ pc' = [pc EXCEPT ![p] = "open"]
    /\ UNCHANGED << store_exists, store, bak_exists, bak, rec, ret, nops >>
    /\ resp' = Received(p)

\* open(DATA_FILE, 'w'): the store is truncated before anything is written
UpdOpenW(p) ==
    /\ pc[p] = "open"
    /\ store_exists' = TRUE
    /\ store' = << >>
    /\ pc' = [pc EXCEPT ![p] = "write"]
    /\ UNCHANGED << bak_exists, bak, rec, frame, ret, nops >>
    /\ resp' = Received(p)

\* The record after update's last two assignments.
Updated(self, new_raw) ==
    [ record_key |-> self.record_key,
      raw_data   |-> Some(new_raw),
      attributes |-> Split(new_raw, AM) ]

\* The rewrite loop, the close of the file, and the update of raw_data and
\* attributes; update returns.  A handler's record is dropped with the
\* request; a caller's own record stays with the caller.
UpdWrite(p) ==
    /\ pc[p] = "write"
    /\ store' = Concat(Rewrite(frame[p].lines, frame[p].self.record_key[1], frame[p].new_raw))
    /\ rec' = IF frame[p].http THEN rec
              ELSE [rec EXCEPT ![p] = Updated(frame[p].self, frame[p].new_raw)]
    /\ ret' = Return(p, "ok")
    /\ pc' = [pc EXCEPT ![p] = "idle"]
    /\ frame' = [frame EXCEPT ![p] = NoFrame]
    /\ UNCHANGED << store_exists, bak_exists, bak, nops >>
    /\ resp' = Received(p)

\* GET /get_legacy_client/<client_id>
get_legacy_client(p, client_id, q) ==
    /\ CanCall(p)
    /\ LET client_record == ReadRecord(store_exists, store, client_id)
           answer == [NoRet EXCEPT !.proc = p, !.op = "http_get", !.self = client_record,
                                   !.key = client_id,
                                   !.flags = << q.parse_numbers, q.parse_dates, q.latest >>]
       IN  ret' = IF Truthy(client_record.raw_data)
                  THEN [answer EXCEPT !.status = 200,
                                      !.json = to_json(client_record, q.parse_numbers,
                                                       q.parse_dates, q.latest)]
                  ELSE [answer EXCEPT !.status = 404]
    /\ nops' = nops + 1
    /\ UNCHANGED << store_exists, store, bak_exists, bak, rec, pc, frame >>
    /\ resp' = Received(p)

\* POST /update_legacy_client/<client_id>, up to the call of record.update
update_legacy_client(p, client_id, data) ==
    /\ CanCall(p)
    /\ nops' = nops + 1
    /\ LET record == ReadRecord(store_exists, store, client_id)
           checked == ValidateKeys(data, << >>)
           answer == [NoRet EXCEPT !.proc = p, !.op = "http_update", !.key = client_id,
                                   !.data = data]
       IN  IF data = << >>
           THEN /\ ret' = [answer EXCEPT !.status = 400]
                /\ UNCHANGED << pc, frame >>
           ELSE IF ~Truthy(record.raw_data)
           THEN /\ ret' = [answer EXCEPT !.self = record, !.status = 404]
                /\ UNCHANGED << pc, frame >>
           ELSE IF ~checked.ok
           THEN /\ ret' = [answer EXCEPT !.self = record, !.status = 400, !.bad = checked.key]
                /\ UNCHANGED << pc, frame >>
           ELSE EnterUpdate(p, record, checked.attr_map, TRUE, client_id, data)
    /\ UNCHANGED << store_exists, store, bak_exists, bak, rec >>
    /\ resp' = Received(p)

\* The calls and steps that touch the store.
StoreStep(p) ==
    \/ \E k \in Keys : Read(p, k)
    \/ \E m \in Maps : UpdateCall(p, m)
    \/ UpdBackup(p)
    \/ UpdReadLines(p)
    \/ UpdOpenW(p)
    \/ UpdWrite(p)
    \/ \E k \in Keys, q \in Queries : get_legacy_client(p, k, q)
    \/ \E k \in Keys, d \in Bodies : update_legacy_client(p, k, d)

\* The calls that only look at the record the caller holds.
QueryStep(p) ==
    \/ \E a \in Positions, v \in OptPositions, s \in OptPositions : Extract(p, a, v, s)
    \/ \E pn \in BOOLEAN, pd \in BOOLEAN, l \in Policies : ToJson(p, pn, pd, l)

\* Requests served at the same time: the steps of their store accesses
\* interleave in any order (no lock is taken anywhere).
Next == \E p \in Procs : StoreStep(p)

Spec == Init /\ [][Next]_vars

\* One caller, one call at a time.
Caller == CHOOSE p \in Procs : \A q \in Procs : p <= q

NextSeq == StoreStep(Caller) \/ QueryStep(Caller)

SpecSeq == Init /\ [][NextSeq]_vars

(***************************************************************************)
(* Properties                                                              *)
(***************************************************************************)
\* update has returned to its caller without raising, and no call is under way.
UpdateReturned == ret.op = "update" /\ ret.exc = "ok" /\ pc[ret.proc] = "idle"

\* C1: after update(map) on a record that read found, a fresh read of the
\* same key followed by extract(p) returns, for each position p of the map,
\* the value supplied: the scalar's text, or the elements joined by "]".
C1_RoundTrip ==
    (UpdateReturned /\ ret.self.raw_data # None) =>
        LET fresh == ReadRecord(store_exists, store, ret.self.record_key[1])
        IN  \A i \in 1..Len(ret.map) :
                ret.map[i].k >= 1 =>
                    extract(fresh, ret.map[i].k, None, None) = ValueText(ret.map[i].v)

\* The index of the first line that matches key, 0 when none does.
RECURSIVE FirstMatchFrom(_, _, _)
FirstMatchFrom(lines, key, i) ==
    IF i > Len(lines) THEN 0
    ELSE IF LineMatches(lines[i], key) THEN i
    ELSE FirstMatchFrom(lines, key, i + 1)

\* C2: the rewrite of update changes only the first line that starts with
\* key + "^"; every other line, a later line with the same key included, is
\* written back unchanged, and the number and order of lines is kept.
C2_FirstMatchOnly ==
    [][\A p \in Procs :
        UpdWrite(p) =>
            LET old   == frame[p].lines
                new   == ReadLines(store')
                first == FirstMatchFrom(old, frame[p].self.record_key[1], 1)
            IN  /\ Len(new) = Len(old)
                /\ \A i \in 1..Len(old) : i # first => new[i] = old[i]]_vars

\* A to_json call or a GET has just returned a projection.
HasProjection == ret.op \in {"to_json", "http_get"} /\ ~ret.json.is_none

\* C3: a transaction entry of the projection has an "amount" field only if
\* there is a balance at that index and a "date" field only if there is a
\* date at that index: past the shorter list the field is absent.
C3_NoPlaceholder ==
    HasProjection =>
        \A i \in 1..Len(ret.json.transactions) :
            /\ "amount" \in DOMAIN ret.json.transactions[i]
                   => i <= Len(ret.json.legacy_balances_history)
            /\ "date" \in DOMAIN ret.json.transactions[i]
                   => i <= Len(ret.json.transaction_dates)

\* The answer the claim C4 gives for extract(a, v[, s]) on a non-empty
\* attribute attr with a value position v supplied.
C4_Expected(attr, v, subvalue_pos) ==
    LET values == Split(attr, VM)
    IN  IF v < 1 \/ v > Len(values) THEN << >>
        ELSE IF subvalue_pos = None THEN values[v]
        ELSE LET svs == Split(values[v], SM)
                 sv  == subvalue_pos[1]
             IN  IF sv < 1 \/ sv > Len(svs) THEN << >> ELSE svs[sv]

\* C4: on a non-empty attribute, extract(a, v) is the v-th value when
\* 1 <= v <= number of values and "" for every other integer v (0, negative,
\* too large); likewise extract(a, v, s) for the subvalue position s.
C4_OutOfRangeIsEmpty ==
    (/\ ret.op = "extract"
     /\ ret.pos[1] \in 1..Len(ret.self.attributes)
     /\ ret.self.attributes[ret.pos[1]] # << >>
     /\ ret.pos[2] # None)
    => ret.text = C4_Expected(ret.self.attributes[ret.pos[1]], ret.pos[2][1], ret.pos[3])

\* C5: when an update opens the store for its rewrite, the backup exists and
\* holds the complete text the store has at that moment, which is the text
\* the update has just read; when the update returns, the backup still holds
\* it.  So over a sequence of updates the backup is the store as it was
\* before the latest one.
C5_BackupIsPreviousStore ==
    [][\A p \in Procs :
        /\ UpdOpenW(p) =>
               bak_exists /\ bak = store /\ Concat(frame[p].lines) = store
        /\ UpdWrite(p) =>
               bak_exists' /\ bak' = Concat(frame[p].lines)]_vars

\* Witness of C5: a second update has returned, and the backup holds what the
\* first one wrote (not the store the run began with).
C5_Witness ==
    /\ ret.op \in {"update", "http_update"}
    /\ ret.exc = "ok"
    /\ pc[ret.proc] = "idle"
    /\ bak_exists
    /\ \A f \in InitStores : bak # f.content
    /\ store # bak

\* No line of the store matches key (or there is no store).
NoLineFor(key) ==
    \/ ~store_exists
    \/ \A i \in 1..Len(ReadLines(store)) : ~LineMatches(ReadLines(store)[i], key)

\* C6: a GET answers 404 exactly when the key has no matching line in the
\* store (or the store is missing), and 200 with the projection otherwise.
C6_NotFoundIffNoLine ==
    (ret.op = "http_get" /\ pc[ret.proc] = "idle") =>
        /\ ret.status = 404 <=> NoLineFor(ret.key)
        /\ ~NoLineFor(ret.key) => ret.status = 200 /\ ~ret.json.is_none

\* A key of a JSON body that is not the text of a positive integer.
BadKey(k) == ParseInt(k) = None \/ ParseInt(k)[1] < 1

HasBadKey(data) == \E i \in 1..Len(data) : BadKey(data[i].k)

\* C7: for a record the handler found, a body with a key that is not a
\* positive integer is answered 400 naming such a key, and update is not
\* called (so the store and the backup stay as they are).
C7_BadKeyRejected ==
    /\ \A p \in Procs : (pc[p] # "idle" /\ frame[p].http) => ~HasBadKey(frame[p].data)
    /\ (ret.op = "http_update" /\ Truthy(ret.self.raw_data) /\ HasBadKey(ret.data))
           => ret.status = 400 /\ BadKey(ret.bad)

\* The invariant C8 states of one record.
InSync(r) ==
    IF r.raw_data # None
    THEN r.attributes = Split(r.raw_data[1], AM)
    ELSE r.attributes = << >>

\* C8: in every record (held by a caller, being updated, or just returned
\* from), attributes is raw_data split on "^" whenever raw_data is present,
\* the empty text included, and empty when raw_data is absent.
C8_AttributesInSync ==
    /\ \A p \in Procs : InSync(rec[p]) /\ InSync(frame[p].self)
    /\ InSync(ret.self)

\* C9: extract(a, v, s) is "" whenever a <= 0 or a exceeds the attribute
\* count, for any v and s and any record; and read of a key without a line,
\* or from a missing store, returns a record of that key with raw_data None
\* and no attributes.
C9_NotFoundIsEmpty ==
    /\ (ret.op = "extract" /\ (ret.pos[1] <= 0 \/ ret.pos[1] > Len(ret.self.attributes)))
           => ret.text = << >>
    /\ (ret.op = "read" /\ pc[ret.proc] = "idle" /\ NoLineFor(ret.key))
           => /\ ret.self.record_key = Some(ret.key)
              /\ ret.self.raw_data = None
              /\ ret.self.attributes = << >>

\* Witness of C9: extract with a value and a subvalue position on a record
\* that has attributes, at an attribute position past the last one.
C9_Witness ==
    /\ ret.op = "extract"
    /\ ret.self.attributes # << >>
    /\ ret.pos[1] > Len(ret.self.attributes)
    /\ ret.pos[2] # None /\ ret.pos[3] # None
    /\ ret.text = << >>

\* The entries of attribute 2 that are not empty, in order.
BalanceEntries(r) ==
    IF Len(r.attributes) < 2 THEN << >>
    ELSE SelectSeq(Split(r.attributes[2], VM), LAMBDA x : x # << >>)

\* C10: the projection's current balance is the first element of the balance
\* list under the policy "first" and the last under any other policy; it is
\* absent exactly when the balance list is empty; it is the element the
\* balance history of the same projection shows at that place.
C10_CurrentBalance ==
    HasProjection =>
        LET h       == ret.json.legacy_balances_history
            entries == BalanceEntries(ret.self)
            cur     == ret.json.current_balance
        IN  /\ Len(h) = Len(entries)
            /\ cur = None <=> entries = << >>
            /\ entries # << >> =>
                   /\ cur = Some(IF ret.flags[3] = "first" THEN h[1] ELSE h[Len(h)])
                   /\ ~ret.flags[1] =>
                          cur = Some(IF ret.flags[3] = "first" THEN entries[1]
                                     ELSE entries[Len(entries)])

\* Witness of C10: under the policy "first", with parsed numbers, a history
\* whose first and last elements differ.
C10_Witness ==
    /\ ret.op = "to_json" /\ ~ret.json.is_none
    /\ ret.flags[1] /\ ret.flags[3] = "first"
    /\ Len(ret.json.legacy_balances_history) >= 2
    /\ ret.json.legacy_balances_history[1]
           # ret.json.legacy_balances_history[Len(ret.json.legacy_balances_history)]
    /\ ret.json.current_balance = Some(ret.json.legacy_balances_history[1])

\* The largest position of a map, 0 for the empty map.
LargestPos(map) == MaxKey(map)

\* The value the map gives position pos (its last entry for it), if any.
InMap(map, pos) == \E i \in 1..Len(map) : map[i].k = pos

\* What C11 states of the attribute list after, given the list before.
Extended(before, map, after) ==
    /\ Len(after) = Max(Len(before), LargestPos(map))
    /\ \A pos \in 1..Len(after) :
           ~InMap(map, pos) =>
               after[pos] = IF pos <= Len(before) THEN before[pos] ELSE << >>

\* C11: after update(map) with positive positions has returned, the attribute
\* count is max(previous count, largest position of the map), the positions
\* the extension created and the map does not name hold "", and every earlier
\* attribute the map does not name has its previous value; this holds of the
\* caller's record and, for a record that read found, of the line a fresh
\* read finds in the store.
C11_NeverTruncates ==
    (/\ UpdateReturned
     /\ \A i \in 1..Len(ret.map) : ret.map[i].k >= 1)
    => /\ Extended(ret.self.attributes, ret.map, rec[ret.proc].attributes)
       /\ ret.self.raw_data # None =>
              Extended(ret.self.attributes, ret.map,
                       ReadRecord(store_exists, store, ret.self.record_key[1]).attributes)

\* Callers p and q have both been answered 200 to an update request for the
\* same key, and q was answered last (its write was the last to complete).
BothUpdated(p, q) ==
    /\ p # q
    /\ pc[p] = "idle" /\ pc[q] = "idle"
    /\ resp[p].op = "http_update" /\ resp[p].status = 200
    /\ resp[q].op = "http_update" /\ resp[q].status = 200
    /\ resp[p].key = resp[q].key
    /\ ret = resp[q]

\* new_raw as request r built it: its map applied to the record it read.
RequestedRaw(r) == NewRaw(NewAttrs(r.self, r.map)[1])

DistinctKeysUpdated(p, q) ==
    /\ p # q
    /\ pc[p] = "idle" /\ pc[q] = "idle"
    /\ resp[p].op = "http_update" /\ resp[p].status = 200
    /\ resp[q].op = "http_update" /\ resp[q].status = 200
    /\ resp[p].key # resp[q].key
    /\ ret = resp[q]

\* The record a read of key finds in a store holding text.
Found(text, key) == ReadRecord(TRUE, text, key)

C14_FailureChangesNothing ==
    [][\A p \in Procs :
        /\ (/\ \E m \in Maps : UpdateCall(p, m)
            /\ ~Truthy(rec[p].record_key))
               => /\ pc'[p] = "idle"
                  /\ ret'.proc = p /\ ret'.op = "update" /\ ret'.exc = "ValueError"
                  /\ UNCHANGED << store_exists, store, bak_exists, bak, rec >>
        /\ (UpdBackup(p) /\ ~store_exists)
               => /\ pc'[p] = "idle"
                  /\ ret'.proc = p /\ ret'.exc = "FileNotFoundError"
                  /\ frame[p].http => ret'.status = 500
                  /\ UNCHANGED << store_exists, store, bak_exists, bak, rec >>
        /\ (pc[p] # "idle" /\ rec'[p] # rec[p])
               => /\ pc[p] = "write" /\ pc'[p] = "idle"
                  /\ ret'.proc = p /\ ret'.exc = "ok"
                  /\ store' = Concat(Rewrite(frame[p].lines, frame[p].self.record_key[1],
                                             frame[p].new_raw))]_vars

\* Witness of C14: update on a record with a key has just failed on a missing
\* store; there is still no store and no backup, and the caller's record is
\* the one the update was called on.
C14_Witness ==
    /\ ret.op = "update" /\ ret.exc = "FileNotFoundError"
    /\ pc[ret.proc] = "idle"
    /\ Truthy(ret.self.record_key)
    /\ ~store_exists /\ ~bak_exists
    /\ rec[ret.proc] = ret.self

=============================================================================
